---- MODULE Spec2Model ----
(***************************************************************************)
(* Vocabulary-assessment quiz: the app controller (App), the question      *)
(* service client (generateQuizQuestions), the quiz runner (QuizScreen)    *)
(* and the results estimator (ResultsScreen).                              *)
(*                                                                         *)
(* Conventions.                                                            *)
(*  - JavaScript null/undefined is NULL; strings are TLA+ strings, so the  *)
(*    empty string "" is a string that is not NULL but is falsy.           *)
(*  - A question's level is kept as String(level): the estimator reads a   *)
(*    level only through String(..) and template literals.                 *)
(*  - Array indices are 0-based as in the source; sequences are 1-based,   *)
(*    so questions[i] of the source is questions[i + 1] here.              *)
(***************************************************************************)
EXTENDS Integers, Sequences, FiniteSets, TLC

NULL == "<null>"

Languages == {"hsk", "ielts", "dele"}

WELCOME == "WELCOME"
LOADING == "LOADING"
QUIZ    == "QUIZ"
RESULTS == "RESULTS"

(* JavaScript truthiness of a string-or-null value. *)
Truthy(s) == s # NULL /\ s # ""

-----------------------------------------------------------------------------
(* Results estimator: static tables.                                       *)

LEVEL_ORDER ==
  [hsk   |-> <<"1", "2", "3", "4", "5", "6">>,
   ielts |-> <<"4", "4.5", "5", "5.5", "6", "6.5", "7", "7.5", "8", "8.5", "9">>,
   dele  |-> <<"A1", "A2", "B1", "B2", "C1", "C2">>]

VOCAB_ESTIMATES ==
  [hsk   |-> ("1" :> 150) @@ ("2" :> 300) @@ ("3" :> 600) @@ ("4" :> 1200)
             @@ ("5" :> 2500) @@ ("6" :> 5000),
   dele  |-> ("A1" :> 500) @@ ("A2" :> 1000) @@ ("B1" :> 2000) @@ ("B2" :> 4000)
             @@ ("C1" :> 8000) @@ ("C2" :> 16000),
   ielts |-> ("4" :> 2000) @@ ("4.5" :> 2500) @@ ("5" :> 3000) @@ ("5.5" :> 4000)
             @@ ("6" :> 5000) @@ ("6.5" :> 6500) @@ ("7" :> 8000)
             @@ ("7.5" :> 12000) @@ ("8" :> 16000) @@ ("8.5" :> 16000)
             @@ ("9" :> 16000)]

(* The label and the table key the estimator falls back to when no level   *)
(* passed: [floor, floorKey, below] per language (the switch statement).   *)
FallbackLabels ==
  [hsk   |-> [floor |-> "1",   floorKey |-> "1",  below |-> "Below 1",
              prefix |-> "HSK Level"],
   ielts |-> [floor |-> "4.0", floorKey |-> "4",  below |-> "Below 4.0",
              prefix |-> "IELTS Band"],
   dele  |-> [floor |-> "A1",  floorKey |-> "A1", below |-> "Below A1",
              prefix |-> "DELE Level"]]

PLACEHOLDER_VOCAB == "~100-200 words"

-----------------------------------------------------------------------------
(* Results estimator: the useMemo computation.                             *)

(* questions[ua.questionIndex].correctAnswer === ua.answer *)
AnswerIsCorrect(qs, ua) == qs[ua.questionIndex + 1].correctAnswer = ua.answer

(* userAnswers.filter(..).length *)
CorrectAnswersCount(qs, uas) ==
  Cardinality({k \in 1..Len(uas) : AnswerIsCorrect(qs, uas[k])})

(* Math.round(x) for x = 100 * c / n >= 0 is floor(x + 1/2); c / n * 100   *)
(* is exact to well under 1/2 for the sizes considered.                    *)
MathRoundPercentFloor(c, n) == (100 * c) \div n
MathRoundPercent(c, n) == (200 * c + n) \div (2 * n)

CalculatedScore(qs, uas) == MathRoundPercent(CorrectAnswersCount(qs, uas), Len(qs))

TotalByLevel(qs, levelStr) ==
  Cardinality({k \in 1..Len(qs) : qs[k].level = levelStr})

CorrectByLevel(qs, uas, levelStr) ==
  Cardinality({k \in 1..Len(uas) :
                 /\ AnswerIsCorrect(qs, uas[k])
                 /\ qs[uas[k].questionIndex + 1].level = levelStr})

(* accuracy >= 0.6 with accuracy = total > 0 ? correct / total : 0.  For   *)
(* integers c, t the double c / t is >= the double 0.6 exactly when        *)
(* 5c >= 3t (IEEE division is correctly rounded and monotone).             *)
AccuracyPassesStrict(c, t) == t > 0 /\ 5 * c > 3 * t
AccuracyPasses(c, t) == t > 0 /\ 5 * c >= 3 * t

LevelPassesWhenEmpty(qs, uas, levelStr) ==
  \/ TotalByLevel(qs, levelStr) = 0
  \/ AccuracyPasses(CorrectByLevel(qs, uas, levelStr), TotalByLevel(qs, levelStr))
LevelPasses(qs, uas, levelStr) ==
  AccuracyPasses(CorrectByLevel(qs, uas, levelStr), TotalByLevel(qs, levelStr))

(* The for-of loop over LEVEL_ORDER[language] from position i on, with the *)
(* value passedLevel has so far; break on the first failing level.         *)
RECURSIVE ScanLevels(_, _, _, _, _)
ScanLevelsNoBreak(qs, uas, order, i, passed) ==
  IF i > Len(order) THEN passed
  ELSE IF LevelPasses(qs, uas, order[i])
       THEN ScanLevels(qs, uas, order, i + 1, order[i])
       ELSE ScanLevels(qs, uas, order, i + 1, passed)
ScanLevels(qs, uas, order, i, passed) ==
  IF i > Len(order) THEN passed
  ELSE IF LevelPasses(qs, uas, order[i])
       THEN ScanLevels(qs, uas, order, i + 1, order[i])
       ELSE passed

PassedLevel(qs, uas, lang) == ScanLevels(qs, uas, LEVEL_ORDER[lang], 1, NULL)

(* finalLevel: every entry of LEVEL_ORDER is truthy, so `passedLevel ? ..` *)
(* tests passedLevel against null.                                          *)
FinalLevelSwappedFallback(qs, uas, lang) ==
  LET passed == PassedLevel(qs, uas, lang) IN
  IF passed # NULL THEN passed
  ELSE IF CalculatedScore(qs, uas) > 20 THEN FallbackLabels[lang].below
       ELSE FallbackLabels[lang].floor
FinalLevel(qs, uas, lang) ==
  LET passed == PassedLevel(qs, uas, lang) IN
  IF passed # NULL THEN passed
  ELSE IF CalculatedScore(qs, uas) > 20 THEN FallbackLabels[lang].floor
       ELSE FallbackLabels[lang].below

FinalLevelKeyNoFloor(qs, uas, lang) == PassedLevel(qs, uas, lang)
FinalLevelKey(qs, uas, lang) ==
  LET passed == PassedLevel(qs, uas, lang) IN
  IF passed # NULL THEN passed
  ELSE IF CalculatedScore(qs, uas) > 20 THEN FallbackLabels[lang].floorKey
       ELSE NULL

(* Number.prototype.toLocaleString() with en-US grouping, for 0 <= n < 10^6 *)
Pad3(n) == IF n < 10 THEN "00" \o ToString(n)
           ELSE IF n < 100 THEN "0" \o ToString(n) ELSE ToString(n)
ToLocaleString(n) ==
  IF n < 1000 THEN ToString(n)
  ELSE ToString(n \div 1000) \o "," \o Pad3(n % 1000)

VocabLookupShifted(lang, key) ==
  IF key # NULL /\ key \in DOMAIN VOCAB_ESTIMATES[lang]
  THEN "~" \o ToLocaleString(VOCAB_ESTIMATES[lang][key] + 50) \o " words"
  ELSE PLACEHOLDER_VOCAB
VocabLookup(lang, key) ==
  IF key # NULL /\ key \in DOMAIN VOCAB_ESTIMATES[lang]
  THEN "~" \o ToLocaleString(VOCAB_ESTIMATES[lang][key]) \o " words"
  ELSE PLACEHOLDER_VOCAB

CalculatedVocab(qs, uas, lang) == VocabLookup(lang, FinalLevelKey(qs, uas, lang))

(* The value useMemo returns. *)
Estimate(qs, uas, lang) ==
  [correctAnswers |-> CorrectAnswersCount(qs, uas),
   score          |-> CalculatedScore(qs, uas),
   estimatedLevel |-> FinalLevel(qs, uas, lang),
   estimatedVocab |-> CalculatedVocab(qs, uas, lang),
   levelPrefix    |-> FallbackLabels[lang].prefix]

-----------------------------------------------------------------------------
(* Question service client.                                                *)

Swap(arr, i, j) == [arr EXCEPT ![i + 1] = arr[j + 1], ![j + 1] = arr[i + 1]]

(* The Fisher-Yates loop `for (i = length - 1; i > 0; i--)` from i on;     *)
(* j = floor(random() * (i + 1)) is any of 0..i.  The set of arrays the    *)
(* loop can leave.                                                         *)
RECURSIVE FisherYates(_, _)
FisherYates(arr, i) ==
  IF i <= 0 THEN {arr}
  ELSE UNION {FisherYates(Swap(arr, i, j), i - 1) : j \in 0..i}

(* The model's provider responses always carry an options array, so the    *)
(* `!array` guard never applies.                                           *)
shuffleArray(array) == FisherYates(array, Len(array) - 1)

(* questions.map(q => ({...q, options: shuffleArray(q.options)})): the set *)
(* of lists the map can produce.                                           *)
RECURSIVE ProcessedQuestions(_)
ProcessedQuestions(qs) ==
  IF qs = <<>> THEN {<<>>}
  ELSE {<<[Head(qs) EXCEPT !.options = o]>> \o rest :
          o \in shuffleArray(Head(qs).options),
          rest \in ProcessedQuestions(Tail(qs))}

Includes(seq, x) == \E k \in 1..Len(seq) : seq[k] = x

(* q.options && q.options.length === 4 && q.options.includes(q.correctAnswer) *)
IsValidQuestionLengthOnly(q) == Len(q.options) = 4
IsValidQuestion(q) == Len(q.options) = 4 /\ Includes(q.options, q.correctAnswer)

FilterQuestions(qs) == SelectSeq(qs, IsValidQuestion)

MSG_NO_KEY    == "API_KEY environment variable not set."
MSG_PROVIDER  ==
  "Failed to communicate with the AI model. Please check your API key and try again."
MSG_EMPTY_LIST == "Failed to generate questions. The AI returned an empty list."

(* A provider response is [kind, questions]: kind "error" (the call        *)
(* throws), "empty" (blank text), "malformed" (JSON.parse or .map throws)  *)
(* or "json" (the text parses to the list `questions`).  The set of        *)
(* results generateQuizQuestions(language) can settle with: without a      *)
(* credential it throws MSG_NO_KEY before the try block; everything thrown *)
(* inside the try block is rethrown as MSG_PROVIDER.                       *)
generateQuizQuestionsRawEmpty(key, resp) ==
  IF ~key
  THEN {[ok |-> FALSE, questions |-> <<>>, message |-> MSG_NO_KEY]}
  ELSE IF resp.kind = "json"
  THEN {[ok |-> TRUE, questions |-> FilterQuestions(p), message |-> NULL] :
          p \in ProcessedQuestions(resp.questions)}
  ELSE IF resp.kind = "empty"
  THEN {[ok |-> FALSE, questions |-> <<>>,
         message |-> "Received empty response from AI model."]}
  ELSE {[ok |-> FALSE, questions |-> <<>>, message |-> MSG_PROVIDER]}
generateQuizQuestions(key, resp) ==
  IF ~key
  THEN {[ok |-> FALSE, questions |-> <<>>, message |-> MSG_NO_KEY]}
  ELSE IF resp.kind = "json"
  THEN {[ok |-> TRUE, questions |-> FilterQuestions(p), message |-> NULL] :
          p \in ProcessedQuestions(resp.questions)}
  ELSE {[ok |-> FALSE, questions |-> <<>>, message |-> MSG_PROVIDER]}

-----------------------------------------------------------------------------
(* State.                                                                  *)

VARIABLES
  apiKey,               \* process.env.API_KEY is set
  quizState,            \* App: quizState
  questions,            \* App: questions
  appUserAnswers,       \* App: userAnswers
  error,                \* App: error
  language,             \* App: language
  needsRender,          \* App state was set and React has not rendered it yet
  crashed,              \* a render threw: React has unmounted the whole tree
  genReq,               \* the latest generateQuizQuestions call of handleStart
  results,              \* ResultsScreen's useMemo value, <<>> while not rendered
  finishCalls,          \* calls of onFinish since the questions were received
  mounted,              \* QuizScreen is mounted
  currentQuestionIndex, \* QuizScreen: currentQuestionIndex
  userAnswers,          \* QuizScreen: userAnswers
  selectedOption,       \* QuizScreen: selectedOption
  audioCache,           \* QuizScreen: audioCache, index -> buffer
  isAudioLoading,       \* QuizScreen: isAudioLoading
  isPlaying,            \* QuizScreen: isPlaying
  sourceNodeRef,        \* QuizScreen: sourceNodeRef.current, NoSource for null
  sources,              \* the AudioBufferSourceNodes that are started
  pronReq,              \* the generatePronunciation call of the toggle
  staleCalls,           \* calls of unmounted quiz runners the provider has not answered
  timers,               \* the setTimeout callbacks of handleAnswerSelect, FIFO
  cues                  \* the correct/incorrect cues played in this quiz

appVars   == <<quizState, questions, appUserAnswers, error, language>>
quizVars  == <<mounted, currentQuestionIndex, userAnswers, selectedOption, cues>>
audioVars == <<audioCache, isAudioLoading, isPlaying, sourceNodeRef, sources, pronReq>>
vars == <<apiKey, appVars, needsRender, crashed, genReq, results, finishCalls,
          quizVars, audioVars, staleCalls, timers>>

(* Bounds of the model. *)
MaxTimers  == 2     \* setTimeout callbacks pending at once
MaxSources == 2     \* started audio sources whose `ended` has not run yet
MaxPronCalls == 2   \* generatePronunciation calls the provider has not answered

NoSource == 0
NoGenReq  == [status |-> "none", language |-> NULL, response |-> [kind |-> "none", questions |-> <<>>]]
NoPronReq == [status |-> "none", idx |-> 0, text |-> NULL, message |-> NULL]
EmptyCache == <<>>

(* Provider responses of the app-level model.  Options repeat a distractor *)
(* so that a question has few distinct shuffles; "" is a legal option.     *)
Q1(lang) == [questionText |-> "w1", options |-> <<"a", "a", "a", "">>,
             correctAnswer |-> "a", level |-> LEVEL_ORDER[lang][1]]
Q2(lang) == [questionText |-> "w2", options |-> <<"", "b", "b", "b">>,
             correctAnswer |-> "", level |-> LEVEL_ORDER[lang][2]]
QShort(lang) == [questionText |-> "w3", options |-> <<"a", "b", "c">>,
                 correctAnswer |-> "a", level |-> LEVEL_ORDER[lang][1]]
QNoAnswer(lang) == [questionText |-> "w4", options |-> <<"a", "a", "a", "a">>,
                    correctAnswer |-> "b", level |-> LEVEL_ORDER[lang][1]]

ProviderResponses(lang) ==
  {[kind |-> k, questions |-> <<>>] : k \in {"error", "empty", "malformed"}}
  \cup {[kind |-> "json", questions |-> qs] :
          qs \in {<<>>, <<Q1(lang)>>, <<Q1(lang), Q2(lang)>>,
                  <<QShort(lang), Q2(lang), QNoAnswer(lang)>>, <<QNoAnswer(lang)>>}}

Init ==
  /\ apiKey \in BOOLEAN
  /\ quizState = WELCOME
  /\ questions = <<>>
  /\ appUserAnswers = <<>>
  /\ error = NULL
  /\ language = NULL
  /\ needsRender = FALSE
  /\ crashed = FALSE
  /\ genReq = NoGenReq
  /\ results = <<>>
  /\ finishCalls = 0
  /\ mounted = FALSE
  /\ currentQuestionIndex = 0
  /\ userAnswers = <<>>
  /\ selectedOption = NULL
  /\ cues = <<>>
  /\ audioCache = EmptyCache
  /\ isAudioLoading = FALSE
  /\ isPlaying = FALSE
  /\ sourceNodeRef = NoSource
  /\ sources = {}
  /\ pronReq = NoPronReq
  /\ staleCalls = 0
  /\ timers = <<>>

(* A promise rejected without a network call settles in a microtask,       *)
(* before any other event, timer or response is handled; a state update    *)
(* is rendered before the next event as well.                              *)
Busy == needsRender \/ genReq.status = "rejected" \/ pronReq.status = "rejected"
Idle == ~crashed /\ ~Busy

-----------------------------------------------------------------------------
(* App controller.                                                         *)

(* handleStart(selectedLanguage), up to the await.  WelcomeScreen is the   *)
(* only caller and is rendered in the WELCOME state.  Without a credential *)
(* generateQuizQuestions throws before it calls the provider.              *)
HandleStartWhileLoading(selectedLanguage) ==
  /\ Idle
  /\ quizState \in {WELCOME, LOADING}
  /\ language' = selectedLanguage
  /\ quizState' = LOADING
  /\ error' = NULL
  /\ genReq' = [NoGenReq EXCEPT !.status = IF apiKey THEN "sent" ELSE "rejected",
                                !.language = selectedLanguage]
  /\ needsRender' = TRUE
  /\ UNCHANGED <<apiKey, questions, appUserAnswers, crashed, results, finishCalls,
                 quizVars, audioVars, staleCalls, timers>>
HandleStartAlwaysCalls(selectedLanguage) ==
  /\ Idle
  /\ quizState = WELCOME
  /\ language' = selectedLanguage
  /\ quizState' = LOADING
  /\ error' = NULL
  /\ genReq' = [NoGenReq EXCEPT !.status = "sent", !.language = selectedLanguage]
  /\ needsRender' = TRUE
  /\ UNCHANGED <<apiKey, questions, appUserAnswers, crashed, results, finishCalls,
                 quizVars, audioVars, staleCalls, timers>>
HandleStart(selectedLanguage) ==
  /\ Idle
  /\ quizState = WELCOME
  /\ language' = selectedLanguage
  /\ quizState' = LOADING
  /\ error' = NULL
  /\ genReq' = [NoGenReq EXCEPT !.status = IF apiKey THEN "sent" ELSE "rejected",
                                !.language = selectedLanguage]
  /\ needsRender' = TRUE
  /\ UNCHANGED <<apiKey, questions, appUserAnswers, crashed, results, finishCalls,
                 quizVars, audioVars, staleCalls, timers>>

(* The provider answers the generateContent call. *)
ProviderReply(resp) ==
  /\ Idle
  /\ genReq.status = "sent"
  /\ genReq' = [genReq EXCEPT !.status = "replied", !.response = resp]
  /\ UNCHANGED <<apiKey, appVars, needsRender, crashed, results, finishCalls,
                 quizVars, audioVars, staleCalls, timers>>

(* handleStart after the await, for a call that settled with r. *)
HandleStartResumeKeepsError(r) ==
  /\ genReq' = [genReq EXCEPT !.status = "settled"]
  /\ needsRender' = TRUE
  /\ IF r.ok /\ Len(r.questions) # 0
     THEN /\ questions' = r.questions
          /\ appUserAnswers' = <<>>
          /\ quizState' = QUIZ
          /\ finishCalls' = 0
          /\ UNCHANGED error
     ELSE /\ quizState' = WELCOME
          /\ UNCHANGED <<error, questions, appUserAnswers, finishCalls>>
  /\ UNCHANGED <<apiKey, language, crashed, results, quizVars, audioVars, staleCalls, timers>>
HandleStartResume(r) ==
  /\ genReq' = [genReq EXCEPT !.status = "settled"]
  /\ needsRender' = TRUE
  /\ IF r.ok /\ Len(r.questions) # 0
     THEN /\ questions' = r.questions
          /\ appUserAnswers' = <<>>
          /\ quizState' = QUIZ
          /\ finishCalls' = 0
          /\ UNCHANGED error
     ELSE /\ error' = (IF r.ok THEN MSG_EMPTY_LIST ELSE r.message)
          /\ quizState' = WELCOME
          /\ UNCHANGED <<questions, appUserAnswers, finishCalls>>
  /\ UNCHANGED <<apiKey, language, crashed, results, quizVars, audioVars, staleCalls, timers>>

(* generateQuizQuestions settles: rejected for the missing credential, or  *)
(* with one of the results of the provider's response.                     *)
GenSettle ==
  /\ ~crashed /\ ~needsRender
  /\ genReq.status \in {"rejected", "replied"}
  /\ genReq.status = "replied" => pronReq.status # "rejected"
  /\ \E r \in generateQuizQuestions(apiKey, genReq.response) : HandleStartResume(r)

(* handleFinish(answers) *)
HandleFinish(answers) ==
  /\ appUserAnswers' = answers
  /\ quizState' = RESULTS
  /\ needsRender' = TRUE
  /\ finishCalls' = finishCalls + 1

(* handleRestart() *)
HandleRestartKeepsLanguage ==
  /\ questions' = <<>>
  /\ appUserAnswers' = <<>>
  /\ language' = language
  /\ quizState' = WELCOME
  /\ error' = NULL
HandleRestart ==
  /\ questions' = <<>>
  /\ appUserAnswers' = <<>>
  /\ language' = NULL
  /\ quizState' = WELCOME
  /\ error' = NULL

(* The "Try Another Test" button of the rendered ResultsScreen. *)
ClickRestart ==
  /\ Idle
  /\ quizState = RESULTS
  /\ results # <<>>
  /\ HandleRestart
  /\ needsRender' = TRUE
  /\ UNCHANGED <<apiKey, crashed, genReq, results, finishCalls, quizVars, audioVars, staleCalls,
                 timers>>

(* QuizScreen's useState/useRef initial values. *)
QuizScreenInitial ==
  /\ currentQuestionIndex' = 0
  /\ userAnswers' = <<>>
  /\ selectedOption' = NULL
  /\ cues' = <<>>
  /\ audioCache' = EmptyCache
  /\ isAudioLoading' = FALSE
  /\ isPlaying' = FALSE
  /\ sourceNodeRef' = NoSource
  /\ sources' = {}
  /\ pronReq' = NoPronReq

(* QuizScreen is mounted: its state starts from the initial values. *)
MountQuizScreen ==
  /\ mounted' = TRUE
  /\ QuizScreenInitial
  /\ UNCHANGED <<timers, staleCalls>>

(* QuizScreen is unmounted: React drops its state, the mount effect's      *)
(* cleanup closes the audio context (all its sources fall silent), and the *)
(* callbacks still pending can no longer set the dropped state.  Timers    *)
(* are not cleared: they stay, marked as belonging to no mounted screen.   *)
(* A pronunciation request in flight is not cancelled either.              *)
UnmountQuizScreen ==
  /\ mounted' = FALSE
  /\ QuizScreenInitial
  /\ staleCalls' = staleCalls + (IF pronReq.status = "sent" THEN 1 ELSE 0)
  /\ timers' = [k \in 1..Len(timers) |-> [timers[k] EXCEPT !.live = FALSE]]

(* ResultsScreen's useMemo throws when an answer's questionIndex has no    *)
(* question: questions[ua.questionIndex] is undefined.                     *)
EstimatorThrows(qs, uas) ==
  \E k \in 1..Len(uas) : uas[k].questionIndex >= Len(qs)

(* React renders App: renderContent() and the screen it returns. *)
AppRender ==
  /\ ~crashed
  /\ needsRender
  /\ IF quizState \in {QUIZ, RESULTS} /\ language = NULL
     THEN /\ HandleRestart
          /\ UNCHANGED <<needsRender, crashed, results, quizVars, audioVars, staleCalls, timers>>
     ELSE /\ needsRender' = FALSE
          /\ UNCHANGED appVars
          /\ IF quizState = QUIZ
             THEN /\ results' = <<>>
                  /\ UNCHANGED crashed
                  /\ IF mounted THEN UNCHANGED <<quizVars, audioVars, staleCalls, timers>>
                     ELSE MountQuizScreen
             ELSE /\ IF mounted THEN UnmountQuizScreen
                     ELSE UNCHANGED <<quizVars, audioVars, staleCalls, timers>>
                  /\ IF quizState = RESULTS
                     THEN IF EstimatorThrows(questions, appUserAnswers)
                          THEN crashed' = TRUE /\ results' = <<>>
                          ELSE /\ results' = <<Estimate(questions, appUserAnswers, language)>>
                               /\ UNCHANGED crashed
                     ELSE results' = <<>> /\ UNCHANGED crashed
  /\ UNCHANGED <<apiKey, genReq, finishCalls>>

-----------------------------------------------------------------------------
(* Quiz runner.                                                            *)

currentQuestion == questions[currentQuestionIndex + 1]

(* source.stop() on sourceNodeRef.current: a playing source stops and its  *)
(* `ended` event is queued; stopping a stopped source changes nothing.     *)
StopCurrent(srcs, ref) ==
  {IF s.id = ref /\ s.state = "playing" THEN [s EXCEPT !.state = "stopped"] ELSE s :
     s \in srcs}

FreeSourceIds == (1..MaxSources) \ {s.id : s \in sources}
NewSourceId == CHOOSE id \in FreeSourceIds : \A other \in FreeSourceIds : id <= other

(* playAudioFromBuffer(buffer): the context and the gain node exist from   *)
(* the mount effect on.                                                    *)
PlayAudioFromBuffer(buffer) ==
  /\ sources' = StopCurrent(sources, sourceNodeRef)
                  \cup {[id |-> NewSourceId, buffer |-> buffer, state |-> "playing"]}
  /\ sourceNodeRef' = NewSourceId

(* source.onended, for a source that played to its end or was stopped. *)
SourceEnded(s) ==
  /\ Idle
  /\ mounted
  /\ s \in sources
  /\ sources' = sources \ {s}
  /\ isPlaying' = FALSE
  /\ sourceNodeRef' = NoSource
  /\ UNCHANGED <<apiKey, appVars, needsRender, crashed, genReq, results, finishCalls,
                 quizVars, audioCache, isAudioLoading, pronReq, staleCalls, timers>>

(* handlePlayPauseToggle(), up to the await.  The button is rendered for   *)
(* the hsk track only.                                                     *)
HandlePlayPauseToggle ==
  /\ Idle
  /\ mounted
  /\ language = "hsk"
  /\ IF isAudioLoading \/ Truthy(selectedOption)
     THEN UNCHANGED audioVars
     ELSE IF isPlaying
     THEN /\ sources' = StopCurrent(sources, sourceNodeRef)
          /\ UNCHANGED <<audioCache, isAudioLoading, isPlaying, sourceNodeRef, pronReq>>
     ELSE /\ isPlaying' = TRUE
          /\ IF currentQuestionIndex \in DOMAIN audioCache
             THEN /\ FreeSourceIds # {}
                  /\ PlayAudioFromBuffer(audioCache[currentQuestionIndex])
                  /\ UNCHANGED <<audioCache, isAudioLoading, pronReq>>
             ELSE /\ staleCalls < MaxPronCalls
                  /\ isAudioLoading' = TRUE
                  /\ pronReq' = [status |-> IF apiKey THEN "sent" ELSE "rejected",
                                 idx |-> currentQuestionIndex,
                                 text |-> currentQuestion.questionText,
                                 message |-> NULL]
                  /\ UNCHANGED <<audioCache, sourceNodeRef, sources>>
  /\ UNCHANGED <<apiKey, appVars, needsRender, crashed, genReq, results, finishCalls,
                 quizVars, staleCalls, timers>>

MSG_PRON_FAILED == "Failed to generate pronunciation audio."
(* Stands for what decode and decodeAudioData throw on a payload that is   *)
(* not base64 for 16-bit samples (atob's and Int16Array's errors).         *)
MSG_DECODE_FAILED == "<decode error>"

(* The error the catch block of handlePlayPauseToggle logs, NULL when the  *)
(* call and the decoding succeed: generatePronunciation throws MSG_NO_KEY  *)
(* before it calls the provider, and rethrows everything thrown inside its *)
(* try block as MSG_PRON_FAILED.                                           *)
PronunciationMessages(status, ok) ==
  IF ok THEN {NULL}
  ELSE IF status = "rejected" THEN {MSG_NO_KEY}
  ELSE {MSG_PRON_FAILED, MSG_DECODE_FAILED}

(* handlePlayPauseToggle() after the await: generatePronunciation and      *)
(* decodeAudioData gave a buffer (ok), or one of them threw.  The closure  *)
(* holds the index the request was made for.  pronReq keeps the settled    *)
(* call ("done" or "failed") until the next call replaces it.              *)
PronSettleCachesUnderCurrent(ok) ==
  /\ ~crashed /\ ~needsRender
  /\ mounted
  /\ pronReq.status \in {"sent", "rejected"}
  /\ pronReq.status = "rejected" => ~ok
  /\ \E m \in PronunciationMessages(pronReq.status, ok) :
       pronReq' = [pronReq EXCEPT !.status = IF ok THEN "done" ELSE "failed",
                                  !.message = m]
  /\ isAudioLoading' = FALSE
  /\ IF ok
     THEN /\ FreeSourceIds # {}
          /\ audioCache' = [i \in DOMAIN audioCache \cup {currentQuestionIndex} |->
                              IF i = currentQuestionIndex THEN pronReq.text
                              ELSE audioCache[i]]
          /\ PlayAudioFromBuffer(pronReq.text)
          /\ UNCHANGED isPlaying
     ELSE /\ isPlaying' = FALSE
          /\ UNCHANGED <<audioCache, sourceNodeRef, sources>>
  /\ UNCHANGED <<apiKey, appVars, needsRender, crashed, genReq, results, finishCalls,
                 quizVars, staleCalls, timers>>
PronSettleCachesFailure(ok) ==
  /\ ~crashed /\ ~needsRender
  /\ mounted
  /\ pronReq.status \in {"sent", "rejected"}
  /\ pronReq.status = "rejected" => ~ok
  /\ \E m \in PronunciationMessages(pronReq.status, ok) :
       pronReq' = [pronReq EXCEPT !.status = IF ok THEN "done" ELSE "failed",
                                  !.message = m]
  /\ isAudioLoading' = FALSE
  /\ audioCache' = [i \in DOMAIN audioCache \cup {pronReq.idx} |->
                      IF i = pronReq.idx THEN pronReq.text ELSE audioCache[i]]
  /\ IF ok
     THEN /\ FreeSourceIds # {}
          /\ PlayAudioFromBuffer(pronReq.text)
          /\ UNCHANGED isPlaying
     ELSE /\ isPlaying' = FALSE
          /\ UNCHANGED <<sourceNodeRef, sources>>
  /\ UNCHANGED <<apiKey, appVars, needsRender, crashed, genReq, results, finishCalls,
                 quizVars, staleCalls, timers>>
PronSettleKeepsPlaying(ok) ==
  /\ ~crashed /\ ~needsRender
  /\ mounted
  /\ pronReq.status \in {"sent", "rejected"}
  /\ pronReq.status = "rejected" => ~ok
  /\ \E m \in PronunciationMessages(pronReq.status, ok) :
       pronReq' = [pronReq EXCEPT !.status = IF ok THEN "done" ELSE "failed",
                                  !.message = m]
  /\ isAudioLoading' = FALSE
  /\ IF ok
     THEN /\ FreeSourceIds # {}
          /\ audioCache' = [i \in DOMAIN audioCache \cup {pronReq.idx} |->
                              IF i = pronReq.idx THEN pronReq.text ELSE audioCache[i]]
          /\ PlayAudioFromBuffer(pronReq.text)
          /\ UNCHANGED isPlaying
     ELSE UNCHANGED <<isPlaying, audioCache, sourceNodeRef, sources>>
  /\ UNCHANGED <<apiKey, appVars, needsRender, crashed, genReq, results, finishCalls,
                 quizVars, staleCalls, timers>>
PronSettle(ok) ==
  /\ ~crashed /\ ~needsRender
  /\ mounted
  /\ pronReq.status \in {"sent", "rejected"}
  /\ pronReq.status = "rejected" => ~ok
  /\ \E m \in PronunciationMessages(pronReq.status, ok) :
       pronReq' = [pronReq EXCEPT !.status = IF ok THEN "done" ELSE "failed",
                                  !.message = m]
  /\ isAudioLoading' = FALSE
  /\ IF ok
     THEN /\ FreeSourceIds # {}
          /\ audioCache' = [i \in DOMAIN audioCache \cup {pronReq.idx} |->
                              IF i = pronReq.idx THEN pronReq.text ELSE audioCache[i]]
          /\ PlayAudioFromBuffer(pronReq.text)
          /\ UNCHANGED isPlaying
     ELSE /\ isPlaying' = FALSE
          /\ UNCHANGED <<audioCache, sourceNodeRef, sources>>
  /\ UNCHANGED <<apiKey, appVars, needsRender, crashed, genReq, results, finishCalls,
                 quizVars, staleCalls, timers>>

(* The provider answers a call of an unmounted quiz runner: the state the  *)
(* continuation sets is dropped and its audio context is closed, so        *)
(* nothing changes and nothing is heard.                                   *)
StalePronSettle ==
  /\ Idle
  /\ staleCalls > 0
  /\ staleCalls' = staleCalls - 1
  /\ UNCHANGED <<apiKey, appVars, needsRender, crashed, genReq, results, finishCalls,
                 quizVars, audioVars, timers>>

(* handleAnswerSelect(answer) for one of the rendered option buttons. *)
AnswerLocked == Truthy(selectedOption)

HandleAnswerSelect(answer) ==
  /\ Idle
  /\ mounted
  /\ Includes(currentQuestion.options, answer)
  /\ IF AnswerLocked
     THEN UNCHANGED <<quizVars, audioVars, staleCalls, timers>>
     ELSE /\ Len(timers) < MaxTimers
          /\ sources' = StopCurrent(sources, sourceNodeRef)
          /\ isPlaying' = FALSE
          /\ selectedOption' = answer
          /\ cues' = Append(cues, IF answer = currentQuestion.correctAnswer
                                  THEN "correct" ELSE "incorrect")
          /\ userAnswers' = Append(userAnswers,
                                   [questionIndex |-> currentQuestionIndex,
                                    answer |-> answer])
          /\ timers' = Append(timers, [idx |-> currentQuestionIndex,
                                       total |-> Len(questions),
                                       answers |-> userAnswers',
                                       live |-> TRUE])
          /\ UNCHANGED <<mounted, currentQuestionIndex, audioCache, isAudioLoading,
                         sourceNodeRef, pronReq, staleCalls>>
  /\ UNCHANGED <<apiKey, appVars, needsRender, crashed, genReq, results, finishCalls>>

(* The setTimeout callback of handleAnswerSelect, 800 ms after the click.  *)
(* Advancing re-renders QuizScreen, which throws when no question has the  *)
(* new index, and runs the [currentQuestionIndex] effect.                  *)
TimerFire ==
  /\ Idle
  /\ timers # <<>>
  /\ timers' = Tail(timers)
  /\ LET t == Head(timers) IN
     IF t.idx < t.total - 1
     THEN /\ UNCHANGED <<appVars, needsRender, finishCalls>>
          /\ IF t.live
             THEN /\ currentQuestionIndex' = currentQuestionIndex + 1
                  /\ selectedOption' = NULL
                  /\ crashed' = (currentQuestionIndex + 1 >= Len(questions))
                  /\ sources' = StopCurrent(sources, sourceNodeRef)
                  /\ isPlaying' = FALSE
                  /\ UNCHANGED <<mounted, userAnswers, cues, audioCache, isAudioLoading,
                                 sourceNodeRef, pronReq, staleCalls>>
             ELSE UNCHANGED <<crashed, quizVars, audioVars, staleCalls>>
     ELSE /\ HandleFinish(t.answers)
          /\ UNCHANGED <<questions, error, language, crashed, quizVars, audioVars, staleCalls>>
  /\ UNCHANGED <<apiKey, genReq, results>>

-----------------------------------------------------------------------------
Next ==
  \/ \E l \in Languages : HandleStart(l)
  \/ \E resp \in (IF genReq.status = "sent" THEN ProviderResponses(genReq.language)
                  ELSE {}) : ProviderReply(resp)
  \/ GenSettle
  \/ ClickRestart
  \/ AppRender
  \/ \E a \in {"", "a", "b"} : HandleAnswerSelect(a)
  \/ TimerFire
  \/ HandlePlayPauseToggle
  \/ \E ok \in BOOLEAN : PronSettle(ok)
  \/ \E s \in sources : SourceEnded(s)
  \/ StalePronSettle

Spec == Init /\ [][Next]_vars

-----------------------------------------------------------------------------
(* The question service on a wider set of provider responses: the start    *)
(* flow of the app up to the mounted quiz.                                 *)

MaxGenQuestions == 2    \* questions in a provider response

(* Four options, three options, five options. *)
GenOptionLists ==
  {<<"a", "b", "c", "d">>, <<"a", "b", "e">>, <<"e", "e", "e", "e", "e">>}

GenQuestionPool(lang) ==
  {[questionText |-> "w", options |-> o, correctAnswer |-> c,
    level |-> LEVEL_ORDER[lang][1]] :
     o \in GenOptionLists, c \in {"a", "e"}}

GenResponses(lang) ==
  {[kind |-> k, questions |-> <<>>] : k \in {"error", "empty", "malformed"}}
  \cup {[kind |-> "json", questions |-> qs] :
          qs \in UNION {[1..n -> GenQuestionPool(lang)] : n \in 0..MaxGenQuestions}}

NextGen ==
  \/ \E l \in Languages : HandleStart(l)
  \/ \E resp \in (IF genReq.status = "sent" THEN GenResponses(genReq.language)
                  ELSE {}) : ProviderReply(resp)
  \/ GenSettle
  \/ AppRender

SpecGen == Init /\ [][NextGen]_vars

-----------------------------------------------------------------------------
(* The two service calls with and without a credential: the app from its   *)
(* start, and the quiz runner rendered with a question list of its own,    *)
(* which reaches generatePronunciation also where generateQuizQuestions    *)
(* could not have delivered the list.                                      *)

InitRunner ==
  /\ apiKey \in BOOLEAN
  /\ quizState = QUIZ
  /\ questions \in {<<Q1("hsk")>>, <<Q2("hsk"), Q1("hsk")>>}
  /\ appUserAnswers = <<>>
  /\ error = NULL
  /\ language = "hsk"
  /\ needsRender = FALSE
  /\ crashed = FALSE
  /\ genReq = NoGenReq
  /\ results = <<>>
  /\ finishCalls = 0
  /\ mounted = TRUE
  /\ currentQuestionIndex = 0
  /\ userAnswers = <<>>
  /\ selectedOption = NULL
  /\ cues = <<>>
  /\ audioCache = EmptyCache
  /\ isAudioLoading = FALSE
  /\ isPlaying = FALSE
  /\ sourceNodeRef = NoSource
  /\ sources = {}
  /\ pronReq = NoPronReq
  /\ staleCalls = 0
  /\ timers = <<>>

SpecCalls == (Init \/ InitRunner) /\ [][Next]_vars

-----------------------------------------------------------------------------
(* The estimator on a wider set of inputs: ResultsScreen rendered with     *)
(* the props (questions, userAnswers, language).                           *)

MaxEstQuestions == 3    \* questions given to the estimator

(* The first levels of the track and one level outside of it. *)
EstLevels(lang) == {LEVEL_ORDER[lang][k] : k \in 1..3} \cup {"3.5"}

EstQuestion(lv) ==
  [questionText |-> "w", options |-> <<"a", "b", "c", "d">>, correctAnswer |-> "a",
   level |-> lv]

(* Any levels on a few questions, and five questions of one level, where   *)
(* an accuracy of exactly 0.6 (3 of 5) and a score of exactly 20 (1 of 5)  *)
(* occur.                                                                  *)
EstQuestionLists(lang) ==
  UNION {[1..n -> {EstQuestion(lv) : lv \in EstLevels(lang)}] : n \in 1..MaxEstQuestions}
  \cup {[k \in 1..5 |-> EstQuestion(lv)] : lv \in EstLevels(lang)}

(* One answer per answered question, in question order. *)
RECURSIVE OrderedAnswers(_, _)
OrderedAnswers(i, n) ==
  IF i >= n THEN {<<>>}
  ELSE LET rest == OrderedAnswers(i + 1, n) IN
       rest \cup {<<[questionIndex |-> i, answer |-> a]>> \o r :
                    a \in {"a", "b"}, r \in rest}

(* The lists handleFinish can pass on: ordered answers, possibly followed  *)
(* by a second answer to the last answered question.                       *)
EstAnswerLists(n) ==
  OrderedAnswers(0, n)
  \cup {Append(r, [questionIndex |-> r[Len(r)].questionIndex, answer |-> a]) :
          r \in OrderedAnswers(0, n) \ {<<>>}, a \in {"a", "b"}}

InitEst ==
  /\ apiKey = TRUE
  /\ quizState = RESULTS
  /\ language \in Languages
  /\ questions \in EstQuestionLists(language)
  /\ appUserAnswers \in EstAnswerLists(Len(questions))
  /\ error = NULL
  /\ needsRender = TRUE
  /\ crashed = FALSE
  /\ genReq = [NoGenReq EXCEPT !.status = "settled", !.language = language]
  /\ results = <<>>
  /\ finishCalls = 1
  /\ mounted = FALSE
  /\ currentQuestionIndex = 0
  /\ userAnswers = <<>>
  /\ selectedOption = NULL
  /\ cues = <<>>
  /\ audioCache = EmptyCache
  /\ isAudioLoading = FALSE
  /\ isPlaying = FALSE
  /\ sourceNodeRef = NoSource
  /\ sources = {}
  /\ pronReq = NoPronReq
  /\ staleCalls = 0
  /\ timers = <<>>

NextEst ==
  \/ AppRender
  \/ ClickRestart

SpecEst == InitEst /\ [][NextEst]_vars

-----------------------------------------------------------------------------
(* Properties of the quiz runner and the app controller.                   *)

AnswerValues == {"", "a", "b"}

(* C1: once an answer has been selected for the current question           *)
(* (selectedOption is not null), a further handleAnswerSelect call before  *)
(* the question advances changes none of userAnswers, selectedOption and   *)
(* currentQuestionIndex, schedules no timer and plays no cue.              *)
C1_LockedSelectHasNoEffect ==
  [][(selectedOption # NULL /\ \E a \in AnswerValues : HandleAnswerSelect(a))
       => UNCHANGED <<userAnswers, selectedOption, currentQuestionIndex, timers, cues>>]_vars

(* The k-th answer is the answer to question k. *)
OneEntryPerQuestionInOrder(uas) ==
  \A k \in 1..Len(uas) : uas[k].questionIndex = k - 1

IsPrefix(a, b) == Len(a) <= Len(b) /\ SubSeq(b, 1, Len(a)) = a

(* C2: userAnswers of the quiz runner has exactly one entry per answered   *)
(* question, in answer order: the k-th entry has questionIndex k (counting *)
(* from 0), and its length is currentQuestionIndex, plus 1 while an answer *)
(* is locked in.                                                           *)
C2_OneAnswerPerQuestion ==
  (mounted /\ ~crashed) =>
    /\ OneEntryPerQuestionInOrder(userAnswers)
    /\ Len(userAnswers) = currentQuestionIndex + (IF selectedOption # NULL THEN 1 ELSE 0)

(* C2, the append-only part: while the quiz runner is mounted, userAnswers *)
(* only ever grows at its end.                                             *)
C2_AppendOnly ==
  [][(mounted /\ mounted') => IsPrefix(userAnswers, userAnswers')]_vars

(* C3: over a whole quiz onFinish is called exactly once, only after the   *)
(* last question was answered, with exactly one entry for every question,  *)
(* and the quiz never advances past the last question.                     *)
C3_FinishOnceWithEveryAnswer ==
  /\ finishCalls <= 1
  /\ ~crashed
  /\ (quizState = RESULTS /\ finishCalls = 1 /\ questions # <<>>) =>
        /\ Len(appUserAnswers) = Len(questions)
        /\ OneEntryPerQuestionInOrder(appUserAnswers)

(* C4: handleRestart (the only way from RESULTS to WELCOME) leaves no      *)
(* answers, no questions, no language and no error, in the welcome state;  *)
(* the quiz runner is not mounted while the welcome screen shows, and when *)
(* it is mounted again it starts with an empty audio cache, index 0, no    *)
(* selection and no answers.                                               *)
C4_RestartClears ==
  [][/\ (quizState = RESULTS /\ quizState' # RESULTS) =>
          /\ quizState' = WELCOME
          /\ appUserAnswers' = <<>>
          /\ questions' = <<>>
          /\ language' = NULL
          /\ error' = NULL
     /\ (quizState = WELCOME /\ ~needsRender) => ~mounted
     /\ (~mounted /\ mounted') =>
          /\ audioCache' = EmptyCache
          /\ currentQuestionIndex' = 0
          /\ selectedOption' = NULL
          /\ userAnswers' = <<>>]_vars

(* A quiz was finished and restarted, and a new quiz is running. *)
C4_Witness ==
  /\ mounted
  /\ genReq.status = "settled"
  /\ error = NULL
  /\ \E k \in 1..Len(timers) : ~timers[k].live

-----------------------------------------------------------------------------
(* Properties of the question service.                                     *)

Occurrences(seq, x) == Cardinality({k \in 1..Len(seq) : seq[k] = x})

IsPermutationOf(a, b) ==
  /\ Len(a) = Len(b)
  /\ \A k \in 1..Len(a) : Occurrences(a, a[k]) = Occurrences(b, a[k])

HasFourOptionsWithAnswer(q) ==
  Len(q.options) = 4 /\ \E k \in 1..4 : q.options[k] = q.correctAnswer

(* The positions of the provider's list whose question is well-formed. *)
KeptPositions(provided) ==
  {k \in 1..Len(provided) : HasFourOptionsWithAnswer(provided[k])}

(* The k-th smallest element of a finite set of numbers. *)
RECURSIVE NthSmallest(_, _)
NthSmallest(S, k) ==
  LET m == CHOOSE x \in S : \A y \in S : x <= y IN
  IF k = 1 THEN m ELSE NthSmallest(S \ {m}, k - 1)

(* returned is provided without its ill-formed questions, in the same      *)
(* order, each question unchanged but for the order of its options.        *)
IsFilteredShuffleOf(returned, provided) ==
  /\ Len(returned) = Cardinality(KeptPositions(provided))
  /\ \A k \in 1..Len(returned) :
       LET q == provided[NthSmallest(KeptPositions(provided), k)] IN
       /\ returned[k].questionText = q.questionText
       /\ returned[k].correctAnswer = q.correctAnswer
       /\ returned[k].level = q.level
       /\ IsPermutationOf(returned[k].options, q.options)

-----------------------------------------------------------------------------
(* Properties of the results estimator, stated on the props ResultsScreen  *)
(* was rendered with and the value it computed.                            *)

Rendered == quizState = RESULTS /\ ~needsRender /\ ~crashed /\ results # <<>>

Order == LEVEL_ORDER[language]

(* Answers that equal the correct answer of their question, at a level. *)
CorrectAt(lv) ==
  Cardinality({k \in 1..Len(appUserAnswers) :
     LET q == questions[appUserAnswers[k].questionIndex + 1] IN
     q.level = lv /\ q.correctAnswer = appUserAnswers[k].answer})

QuestionsAt(lv) == Cardinality({k \in 1..Len(questions) : questions[k].level = lv})

(* accuracy >= 0.6, a level without questions having accuracy 0 *)
MeetsThreshold(lv) == QuestionsAt(lv) > 0 /\ 10 * CorrectAt(lv) >= 6 * QuestionsAt(lv)

LevelsPresent == {questions[k].level : k \in 1..Len(questions)}

PositionsPresent == {k \in 1..Len(Order) : Order[k] \in LevelsPresent}

MaxPositionPresent == CHOOSE k \in PositionsPresent : \A j \in PositionsPresent : j <= k

(* The length of the longest prefix of the level order whose levels all    *)
(* meet the threshold.                                                     *)
PassedPrefix ==
  LET P == {k \in 0..Len(Order) : \A j \in 1..k : MeetsThreshold(Order[j])} IN
  CHOOSE k \in P : \A j \in P : j <= k

AllCorrect ==
  Cardinality({k \in 1..Len(appUserAnswers) :
     questions[appUserAnswers[k].questionIndex + 1].correctAnswer
       = appUserAnswers[k].answer})

(* The integer nearest to 100 * AllCorrect / Len(questions), halves up:    *)
(* the percentage rounded down, or that plus one.                          *)
RawScore ==
  LET n == Len(questions)
      down == (100 * AllCorrect) \div n
  IN  CHOOSE r \in {down, down + 1} :
        2 * n * r <= 200 * AllCorrect + n /\ 200 * AllCorrect + n < 2 * n * (r + 1)

AtMostOneAnswerPerQuestion ==
  \A j, k \in 1..Len(appUserAnswers) :
    appUserAnswers[j].questionIndex = appUserAnswers[k].questionIndex => j = k

BelowMinimumLabel == [hsk |-> "Below 1", ielts |-> "Below 4.0", dele |-> "Below A1"]
FloorLabel == [hsk |-> "1", ielts |-> "4.0", dele |-> "A1"]
FloorVocab == [hsk |-> "~150 words", ielts |-> "~2,000 words", dele |-> "~500 words"]

(* C6 as stated: if every level that appears in the question set has       *)
(* accuracy >= 0.6, the estimated level is the maximum level present.      *)
C6_AllPresentLevelsPass ==
  (Rendered /\ PositionsPresent # {} /\ \A lv \in LevelsPresent : MeetsThreshold(lv))
    => results[1].estimatedLevel = Order[MaxPositionPresent]

(* C6 as amended: if every level of the track's order from the lowest up   *)
(* to the highest level present has questions and accuracy >= 0.6, the     *)
(* estimated level is that highest level.                                  *)
C6_AllLevelsUpToMaxPass ==
  (Rendered /\ PositionsPresent # {}
     /\ \A k \in 1..MaxPositionPresent : MeetsThreshold(Order[k]))
    => results[1].estimatedLevel = Order[MaxPositionPresent]

(* Three levels passed, or one passed with an accuracy of exactly 0.6. *)
C6_Witness ==
  /\ Rendered /\ PositionsPresent # {}
  /\ \A k \in 1..MaxPositionPresent : MeetsThreshold(Order[k])
  /\ \/ MaxPositionPresent = 3
     \/ language = "ielts" /\ Len(questions) = 5 /\ AllCorrect = 3

(* C7: if the accuracy of the track's lowest level is below 0.6, the       *)
(* estimated level is the below-minimum label when the raw score is <= 20  *)
(* and the track's floor level otherwise, whatever the higher levels'      *)
(* accuracy.                                                               *)
C7_LowestLevelFails ==
  (Rendered /\ ~MeetsThreshold(Order[1]))
    => results[1].estimatedLevel =
         (IF RawScore <= 20 THEN BelowMinimumLabel[language] ELSE FloorLabel[language])

(* The lowest level fails while the next one passes, with a score over 20. *)
C7_Witness ==
  /\ Rendered
  /\ ~MeetsThreshold(Order[1]) /\ MeetsThreshold(Order[2])
  /\ RawScore > 20
  /\ results[1].estimatedLevel = FloorLabel[language]

(* C8: the raw score is correct / total questions * 100 rounded to the     *)
(* nearest integer (18 of 30 gives 60), and lies in 0..100 when no         *)
(* question has two answers.                                               *)
C8_RawScore ==
  /\ Rendered =>
       /\ results[1].score = RawScore
       /\ results[1].correctAnswers = AllCorrect
       /\ AtMostOneAnswerPerQuestion => results[1].score \in 0..100
  /\ MathRoundPercent(18, 30) = 60

(* 2 of 3 correct is rounded up to 67. *)
C8_Witness ==
  Rendered /\ AtMostOneAnswerPerQuestion /\ Len(questions) = 3 /\ AllCorrect = 2
    /\ results[1].score = 67

(* C9: whenever some level is passed, the vocabulary-size estimate is      *)
(* '~<value> words' for the table's value of the highest passed level (HSK *)
(* level 3 gives '~600 words'), and every level of every track has a value *)
(* in the table.                                                           *)
C9_VocabOfPassedLevel ==
  /\ (Rendered /\ PassedPrefix > 0) =>
       /\ results[1].estimatedVocab =
            "~" \o ToLocaleString(VOCAB_ESTIMATES[language][Order[PassedPrefix]]) \o " words"
       /\ (language = "hsk" /\ PassedPrefix = 3) => results[1].estimatedVocab = "~600 words"
  /\ \A l \in Languages : \A k \in 1..Len(LEVEL_ORDER[l]) :
       LEVEL_ORDER[l][k] \in DOMAIN VOCAB_ESTIMATES[l]

(* HSK levels 1 to 3 passed. *)
C9_Witness ==
  Rendered /\ language = "hsk" /\ PassedPrefix = 3
    /\ results[1].estimatedVocab = "~600 words"

(* C10 as stated: if no level passed the threshold, the vocabulary-size    *)
(* estimate is '~100-200 words', whatever the track and the raw score.     *)
C10_NoPassGivesPlaceholder ==
  (Rendered /\ PassedPrefix = 0) => results[1].estimatedVocab = "~100-200 words"

(* C10 as amended: if no level passed the threshold, the vocabulary-size   *)
(* estimate is '~100-200 words' when the raw score is <= 20, and the       *)
(* table's value of the track's floor level when it is above 20.           *)
C10_NoPassPlaceholderOrFloor ==
  (Rendered /\ PassedPrefix = 0) =>
     results[1].estimatedVocab =
       (IF RawScore <= 20 THEN "~100-200 words" ELSE FloorVocab[language])

(* No level passed, once with a score of exactly 20, once above. *)
C10_Witness ==
  /\ Rendered /\ PassedPrefix = 0
  /\ \/ RawScore = 20 /\ results[1].estimatedVocab = "~100-200 words"
     \/ RawScore > 20 /\ results[1].estimatedVocab = FloorVocab[language]

-----------------------------------------------------------------------------
(* Properties of the pronunciation playback.                               *)

PlayingSources == {s \in sources : s.state = "playing"}

(* C11: at most one pronunciation source is playing, and a playing source  *)
(* is the one sourceNodeRef holds (so that the next playback, answer or    *)
(* question change stops it).                                              *)
C11_AtMostOnePlaying ==
  (mounted /\ ~crashed) =>
    /\ Cardinality(PlayingSources) <= 1
    /\ \A s \in PlayingSources : s.id = sourceNodeRef

(* A response that settles a request made for a question the runner has    *)
(* left, or whose answer is locked in.                                     *)
StaleResponse ==
  /\ pronReq.status = "sent"
  /\ (pronReq.idx # currentQuestionIndex \/ selectedOption # NULL)

(* C12: a step that changes the question leaves no pronunciation source    *)
(* playing, and a response settling a request made for a question that was *)
(* left or answered starts no playback.                                    *)
C12_StaleResponseIgnored ==
  [][/\ (mounted /\ mounted' /\ currentQuestionIndex' # currentQuestionIndex)
          => {s \in sources' : s.state = "playing"} = {}
     /\ (StaleResponse /\ PronSettle(TRUE))
          => {s \in sources' : s.state = "playing"} \subseteq PlayingSources]_vars

(* C13: a failed pronunciation call leaves isPlaying and isAudioLoading    *)
(* false, adds nothing to the audio cache, and changes none of             *)
(* currentQuestionIndex, selectedOption, userAnswers and the pending       *)
(* advance timers; nothing of the app controller changes either.           *)
C13_PronunciationFailureIsLocal ==
  [][(pronReq.status = "sent" /\ PronSettle(FALSE)) =>
       /\ ~isPlaying' /\ ~isAudioLoading'
       /\ audioCache' = audioCache
       /\ UNCHANGED <<currentQuestionIndex, selectedOption, userAnswers, timers,
                      mounted, appVars, crashed>>]_vars

(* The quiz reached the results state after the pronunciation call of its  *)
(* last question failed.                                                   *)
C13_Witness ==
  /\ quizState = RESULTS
  /\ mounted
  /\ pronReq.status = "failed"
  /\ ~isPlaying /\ ~isAudioLoading
  /\ Len(appUserAnswers) = Len(questions)

-----------------------------------------------------------------------------
(* Properties of the failure handling of question generation.              *)

(* The causes for which a generateQuizQuestions call gives no question:    *)
(* no credential, a provider error, an empty or malformed response, or a   *)
(* list of which the filter keeps nothing.                                 *)
GenerationFails ==
  \/ ~apiKey
  \/ genReq.response.kind # "json"
  \/ KeptPositions(genReq.response.questions) = {}

(* C14: the step that settles a failed question generation ends in the     *)
(* welcome state with an error message, with the questions and answers     *)
(* unchanged and the quiz runner not mounted; the quiz state is entered    *)
(* only by settling a generation that did not fail; handleStart clears the *)
(* error.                                                                  *)
C14_GenerationFailureShowsError ==
  [][/\ (GenerationFails /\ GenSettle) =>
          /\ quizState' = WELCOME
          /\ error' # NULL
          /\ questions' = questions /\ appUserAnswers' = appUserAnswers
          /\ ~mounted'
     /\ (quizState # QUIZ /\ quizState' = QUIZ) =>
          genReq.status = "replied" /\ ~GenerationFails
     /\ (\E l \in Languages : HandleStart(l)) => error' = NULL]_vars

(* A list of which the filter kept nothing, reported on the welcome screen. *)
C14_Witness ==
  /\ quizState = WELCOME
  /\ genReq.status = "settled"
  /\ error = MSG_EMPTY_LIST
  /\ genReq.response.questions # <<>>

(* The failures of generateQuizQuestions itself (handleStart adds one of   *)
(* its own, the empty list).                                               *)
ServiceFailureKinds == {"error", "empty", "malformed"}

ServiceFailed ==
  /\ genReq.status = "settled"
  /\ (~apiKey \/ genReq.response.kind \in ServiceFailureKinds)

(* The messages generateQuizQuestions can fail with, over both settings of *)
(* the credential and all failing provider responses.                      *)
ServiceFailureMessages ==
  {r.message : r \in UNION {generateQuizQuestions(k, [kind |-> f, questions |-> <<>>]) :
                              k \in BOOLEAN, f \in ServiceFailureKinds}}

(* C15 as stated: whenever generateQuizQuestions failed, the message it    *)
(* gave its caller is the message of every failure of generateQuizQuestions.*)
C15_OneMessageForAllFailures ==
  ServiceFailed => \A m \in ServiceFailureMessages : error = m

(* C15 as amended: a provider error, an empty response and a malformed     *)
(* response give one and the same message; the missing credential gives    *)
(* another message of its own.                                             *)
C15_OneMessageForProviderFailures ==
  /\ (ServiceFailed /\ apiKey) => error = MSG_PROVIDER
  /\ (ServiceFailed /\ ~apiKey) => error = MSG_NO_KEY /\ error # MSG_PROVIDER

(* An empty response reported with the provider message. *)
C15_Witness ==
  ServiceFailed /\ apiKey /\ genReq.response.kind = "empty" /\ error = MSG_PROVIDER

-----------------------------------------------------------------------------
(* Properties of the service calls.                                        *)

(* C16: without a credential no generateQuizQuestions call and no          *)
(* generatePronunciation call ever reaches the provider (none is sent,     *)
(* answered or left behind by an unmounted runner), and each call that     *)
(* settled failed with the missing-credential message.                     *)
C16_NoCredentialNoRequest ==
  ~apiKey =>
    /\ genReq.status \notin {"sent", "replied"}
    /\ pronReq.status \notin {"sent", "done"}
    /\ staleCalls = 0
    /\ genReq.status = "settled" => genReq.response.kind = "none"
    /\ (genReq.status = "settled" /\ quizState = WELCOME) => error = MSG_NO_KEY
    /\ pronReq.status = "failed" => pronReq.message = MSG_NO_KEY /\ ~isAudioLoading

(* Without a credential a toggle in the quiz runner has failed. *)
C16_Witness ==
  ~apiKey /\ mounted /\ pronReq.status = "failed" /\ pronReq.message = MSG_NO_KEY

(* Without a credential a start on the welcome screen has failed, after a  *)
(* quiz of the runner was finished and restarted.                          *)
C16_WitnessGeneration ==
  ~apiKey /\ genReq.status = "settled" /\ error = MSG_NO_KEY /\ finishCalls = 1

-----------------------------------------------------------------------------
(* Properties of the app controller's flow.                                *)

FlowEdges ==
  {<<WELCOME, LOADING>>, <<LOADING, QUIZ>>, <<LOADING, WELCOME>>,
   <<QUIZ, RESULTS>>, <<RESULTS, WELCOME>>}

(* C17: quizState only changes along welcome -> loading, loading -> quiz,  *)
(* loading -> welcome, quiz -> results and results -> welcome; loading is  *)
(* left for quiz only with a non-empty question list and for welcome only  *)
(* with an error.                                                          *)
C17_StateFlow ==
  [][quizState' # quizState =>
       /\ <<quizState, quizState'>> \in FlowEdges
       /\ (quizState = LOADING /\ quizState' = QUIZ) => questions' # <<>>
       /\ (quizState = LOADING /\ quizState' = WELCOME) => error' # NULL]_vars

-----------------------------------------------------------------------------
(* Properties of the level scan.                                           *)

(* C18: the passed level is the last level of the longest prefix of the    *)
(* track's level order whose levels all have questions and accuracy >= 0.6 *)
(* (the estimate is its label); with an empty prefix no level is passed    *)
(* and the estimate is the floor or the below-minimum label.  A level      *)
(* without questions and the levels after the first failing one are        *)
(* therefore without influence.                                            *)
C18_LongestPassingPrefix ==
  Rendered =>
    /\ PassedPrefix > 0 => results[1].estimatedLevel = Order[PassedPrefix]
    /\ PassedPrefix = 0 =>
         results[1].estimatedLevel \in {FloorLabel[language], BelowMinimumLabel[language]}

(* The lowest level passes, the second has no question, the third passes:  *)
(* the estimate is the lowest level.                                       *)
C18_Witness ==
  /\ Rendered
  /\ PassedPrefix = 1
  /\ QuestionsAt(Order[2]) = 0
  /\ MeetsThreshold(Order[3])
  /\ results[1].estimatedLevel = Order[1]

-----------------------------------------------------------------------------
(* Properties of the audio cache and of the outstanding requests.          *)

CachedIndices == DOMAIN audioCache

(* A step in which a pronunciation request is issued. *)
RequestIssued == pronReq'.status = "sent" /\ pronReq' # pronReq

(* A step in which the toggle plays the cached buffer of the current       *)
(* question.                                                               *)
CachedToggle ==
  /\ HandlePlayPauseToggle
  /\ ~isAudioLoading /\ ~Truthy(selectedOption) /\ ~isPlaying
  /\ currentQuestionIndex \in CachedIndices

(* C19: while the quiz runner stays mounted, the audio cache keeps every   *)
(* entry it has; it changes only by the step that settles a request with   *)
(* success, which adds the entry of the question the request was made for, *)
(* an entry the cache did not have; a request is issued only for a         *)
(* question that has no entry; a toggle on a question with an entry starts *)
(* a source playing that entry and issues no request.                      *)
C19_CacheAppendOnlyAndLazy ==
  [][(mounted /\ mounted') =>
       /\ \A i \in CachedIndices : i \in DOMAIN audioCache' /\ audioCache'[i] = audioCache[i]
       /\ audioCache' # audioCache =>
            /\ pronReq.status = "sent" /\ pronReq'.status = "done"
            /\ pronReq.idx \notin CachedIndices
            /\ DOMAIN audioCache' = CachedIndices \cup {pronReq.idx}
       /\ (pronReq.status = "sent" /\ pronReq'.status = "done") =>
            pronReq.idx \notin CachedIndices
       /\ RequestIssued => pronReq'.idx \notin CachedIndices
       /\ CachedToggle =>
            /\ pronReq' = pronReq
            /\ \E s \in sources' \ sources :
                 s.state = "playing" /\ s.buffer = audioCache[currentQuestionIndex]]_vars

(* Two sources hold the audio of the current question: a question has at  *)
(* most one successful request, so one of them was started by a toggle     *)
(* that found the audio in the cache.                                      *)
C19_Witness ==
  /\ mounted
  /\ selectedOption = NULL
  /\ currentQuestionIndex \in CachedIndices
  /\ \E s, t \in sources :
       /\ s.id # t.id
       /\ s.buffer = audioCache[currentQuestionIndex]
       /\ t.buffer = audioCache[currentQuestionIndex]

(* A generateQuizQuestions call the provider has not answered or whose     *)
(* answer handleStart has not received yet.                                *)
GenerationOutstanding == genReq.status \in {"sent", "replied"}

(* The steps of C20 that hold of every toggle and every start: a start is  *)
(* made only on the welcome screen with no generation outstanding; the     *)
(* mounted quiz runner issues a request only when it has none in flight,   *)
(* and a toggle while its request is in flight, also one made for an       *)
(* earlier question, changes nothing.                                      *)
NoSecondRequestStep ==
  /\ (\E l \in Languages : HandleStart(l)) =>
       quizState = WELCOME /\ ~GenerationOutstanding
  /\ RequestIssued => pronReq.status # "sent" /\ ~isAudioLoading
  /\ (HandlePlayPauseToggle /\ pronReq.status = "sent") => UNCHANGED <<audioVars, staleCalls>>

(* C20 as stated: no second request is ever issued, and at any time at     *)
(* most one pronunciation request is outstanding.                          *)
C20_AtMostOneOutstanding ==
  [][/\ NoSecondRequestStep
     /\ staleCalls' + (IF pronReq'.status = "sent" THEN 1 ELSE 0) <= 1]_vars

(* C20 as amended: no second generation request is issued while one is     *)
(* outstanding, and a mounted quiz runner never has more than one          *)
(* pronunciation request of its own in flight; requests of runners that    *)
(* were unmounted are not cancelled and may be outstanding besides it.     *)
C20_OneOutstandingPerRunner ==
  [][/\ NoSecondRequestStep
     /\ pronReq'.status = "sent" => (mounted' /\ isAudioLoading')
     /\ staleCalls' > staleCalls => (mounted /\ ~mounted' /\ pronReq.status = "sent")]_vars

(* A request of an unmounted runner is outstanding while the request the   *)
(* new runner made for question 0 is in flight on question 1.              *)
C20_Witness ==
  /\ mounted
  /\ staleCalls = 1
  /\ pronReq.status = "sent"
  /\ pronReq.idx = 0 /\ currentQuestionIndex = 1
  /\ isAudioLoading

-----------------------------------------------------------------------------
(* Properties of the playback indicator and of the cache contents.         *)

(* C21: in the mounted quiz runner a playing pronunciation source implies  *)
(* isPlaying, and isPlaying without a request loading implies a playing    *)
(* source.                                                                 *)
C21_IndicatorMatchesAudio ==
  (mounted /\ ~crashed) =>
    /\ PlayingSources # {} => isPlaying
    /\ (isPlaying /\ ~isAudioLoading) => PlayingSources # {}

(* C21, the callback part: the `ended` callback of a source other than the *)
(* one sourceNodeRef holds leaves isPlaying and sourceNodeRef as they are  *)
(* while the source sourceNodeRef holds is playing.                        *)
C21_StaleEndedIsIgnored ==
  [][\A s \in sources :
       (/\ SourceEnded(s)
        /\ s.id # sourceNodeRef
        /\ \E t \in PlayingSources : t.id = sourceNodeRef)
         => UNCHANGED <<isPlaying, sourceNodeRef>>]_vars

(* C22: every entry of the audio cache, at index i, is the audio generated *)
(* from the text of question i of the running quiz.                        *)
C22_CacheEntryIsOfItsQuestion ==
  (mounted /\ ~crashed /\ quizState = QUIZ) =>
    \A i \in CachedIndices :
      /\ i < Len(questions)
      /\ audioCache[i] = questions[i + 1].questionText

(* The response for question 0 arrived on question 1 and was stored under  *)
(* index 0.                                                                *)
C22_Witness ==
  /\ mounted /\ ~crashed /\ quizState = QUIZ
  /\ currentQuestionIndex = 1
  /\ pronReq.status = "done" /\ pronReq.idx = 0
  /\ CachedIndices = {0}
  /\ audioCache[0] = questions[1].questionText
  /\ questions[2].questionText # questions[1].questionText

-----------------------------------------------------------------------------
(* Properties of the estimator's input and of its monotonicity.            *)

(* Every question index 0..Len(qs)-1 has exactly one answer in uas, and    *)
(* uas has no other answer.                                                *)
ExactlyOneAnswerPerQuestion(qs, uas) ==
  /\ \A k \in 1..Len(uas) : uas[k].questionIndex \in 0..(Len(qs) - 1)
  /\ \A i \in 0..(Len(qs) - 1) :
       Cardinality({k \in 1..Len(uas) : uas[k].questionIndex = i}) = 1

(* C23: in the quiz and results states the question list is non-empty and  *)
(* the language is set; in the results state the answers are exactly one   *)
(* per question, so that the estimator does not throw and its correct      *)
(* count is at most the number of questions.                               *)
C23_EstimatorInputWellFormed ==
  /\ quizState \in {QUIZ, RESULTS} => (questions # <<>> /\ language # NULL)
  /\ quizState = RESULTS =>
       /\ ExactlyOneAnswerPerQuestion(questions, appUserAnswers)
       /\ ~EstimatorThrows(questions, appUserAnswers)
  /\ Rendered => results[1].correctAnswers <= Len(questions)

(* The place of a level label in the track's order: 0 for the              *)
(* below-minimum label, 1 for the floor label and the lowest level, k for  *)
(* the k-th level.                                                         *)
LevelRank(label) ==
  IF label = BelowMinimumLabel[language] THEN 0
  ELSE IF label = FloorLabel[language] THEN 1
  ELSE CHOOSE k \in 1..Len(Order) : Order[k] = label

(* The number of words a vocabulary-size estimate names, 0 for the         *)
(* placeholder '~100-200 words'.                                           *)
VocabWords(estimate) ==
  IF estimate = "~100-200 words" THEN 0
  ELSE LET k == CHOOSE j \in 1..Len(Order) :
                  estimate = "~" \o ToLocaleString(VOCAB_ESTIMATES[language][Order[j]])
                                 \o " words"
       IN  VOCAB_ESTIMATES[language][Order[k]]

(* The answers whose answer differs from the correct answer of their       *)
(* question.                                                               *)
WrongAnswers ==
  {k \in 1..Len(appUserAnswers) :
     questions[appUserAnswers[k].questionIndex + 1].correctAnswer # appUserAnswers[k].answer}

(* The answers with the k-th one changed into the correct answer. *)
WithAnswerCorrected(k) ==
  [appUserAnswers EXCEPT
     ![k].answer = questions[appUserAnswers[k].questionIndex + 1].correctAnswer]

(* C24: for the question set, track and answers the results were computed  *)
(* from, the estimate for the answers with any one wrong answer changed    *)
(* into the correct one has a raw score, a level and a vocabulary size     *)
(* that are not lower.                                                     *)
C24_EstimatorMonotone ==
  Rendered =>
    \A k \in WrongAnswers :
      LET better == Estimate(questions, WithAnswerCorrected(k), language) IN
      /\ better.score >= results[1].score
      /\ better.correctAnswers = results[1].correctAnswers + 1
      /\ LevelRank(better.estimatedLevel) >= LevelRank(results[1].estimatedLevel)
      /\ VocabWords(better.estimatedVocab) >= VocabWords(results[1].estimatedVocab)

(* Correcting one wrong answer lifts the estimate from the below-minimum   *)
(* label, at a score of at most 20, to the floor level or a passed level.  *)
C24_Witness ==
  /\ Rendered
  /\ results[1].score <= 20
  /\ LevelRank(results[1].estimatedLevel) = 0
  /\ \E k \in WrongAnswers :
       LET better == Estimate(questions, WithAnswerCorrected(k), language) IN
       /\ LevelRank(better.estimatedLevel) >= 1
       /\ VocabWords(better.estimatedVocab) > VocabWords(results[1].estimatedVocab)

====
